---- MODULE Spec2Model ----
(***************************************************************************)
(* The icon build scripts of DUCC-Website:                                 *)
(*   src/temprename.py          the rename pass alone                      *)
(*   src/iconjs.py              the compiler (read, strip fill, emit)      *)
(*   src/src/iconFormating.py   rename pass followed by the compiler       *)
(* Texts (file names, file contents, the generated module) are sequences   *)
(* of one-character strings, so that Python's find / rfind / slicing are   *)
(* computed index by index as the interpreter computes them.               *)
(* iconFormating.py is modelled statement by statement from line 10 on;    *)
(* the string literal that spans lines 54-55 is the two characters "};"    *)
(* followed by the line break it contains.  (As committed the file opens   *)
(* with a block comment in another language's syntax and breaks that       *)
(* literal across two lines, so CPython rejects it before any statement    *)
(* runs; the model takes its statements as written.)                       *)
(* The directory is fs (regular files: name -> content) and sub            *)
(* (subdirectories: name -> files inside).  fs0, listed, hist, run and     *)
(* failedAt record what a run started from, listed, wrote and how it       *)
(* ended; the scripts do not read them.                                    *)
(***************************************************************************)
EXTENDS Integers, Sequences, FiniteSets, TLC

VARIABLES script, fs, sub, pc, files, idx, icons, iconNames, failedAt,
          run, fs0, listed, hist

vars == <<script, fs, sub, pc, files, idx, icons, iconNames, failedAt,
          run, fs0, listed, hist>>

(***************************************************************************)
(* Bounds of the model                                                     *)
(***************************************************************************)
MaxValLen == 5
MaxPreLen == 2
MaxTextLen == 3
MaxFiles == 2
MaxRuns == 2

(***************************************************************************)
(* Python str primitives                                                   *)
(***************************************************************************)
\* a slice bound as CPython clamps it: negative counts from the end
SliceIndex(s, i) ==
    IF i < 0 THEN (IF Len(s) + i < 0 THEN 0 ELSE Len(s) + i)
    ELSE IF i > Len(s) THEN Len(s) ELSE i

\* s[:j]
SliceTo(s, j) == SubSeq(s, 1, SliceIndex(s, j))

\* s[i:]
SliceFrom(s, i) == SubSeq(s, SliceIndex(s, i) + 1, Len(s))

\* sub occurs in s at 0-based offset i
OccursAt(s, t, i) ==
    /\ i + Len(t) <= Len(s)
    /\ SubSeq(s, i + 1, i + Len(t)) = t

\* s.find(t): lowest offset of t in s, -1 when absent
Find(s, t) ==
    LET hits == {i \in 0..Len(s) : OccursAt(s, t, i)}
    IN IF hits = {} THEN -1 ELSE CHOOSE i \in hits : \A j \in hits : i <= j

\* s.rfind(t): highest offset of t in s, -1 when absent
RFind(s, t) ==
    LET hits == {i \in 0..Len(s) : OccursAt(s, t, i)}
    IN IF hits = {} THEN -1 ELSE CHOOSE i \in hits : \A j \in hits : i >= j

\* s.endswith(t)
EndsWith(s, t) == Len(t) <= Len(s) /\ SubSeq(s, Len(s) - Len(t) + 1, Len(s)) = t

\* s.replace("-", "_")
ReplaceHyphen(s) == [i \in 1..Len(s) |-> IF s[i] = "-" THEN "_" ELSE s[i]]

LowerLetters ==
    <<"a","b","c","d","e","f","g","h","i","j","k","l","m",
      "n","o","p","q","r","s","t","u","v","w","x","y","z">>
UpperLetters ==
    <<"A","B","C","D","E","F","G","H","I","J","K","L","M",
      "N","O","P","Q","R","S","T","U","V","W","X","Y","Z">>

\* s.upper()
Upper(s) ==
    [i \in 1..Len(s) |->
        IF \E k \in 1..26 : LowerLetters[k] = s[i]
        THEN UpperLetters[CHOOSE k \in 1..26 : LowerLetters[k] = s[i]]
        ELSE s[i]]

(***************************************************************************)
(* String literals of the scripts                                          *)
(***************************************************************************)
Marker == <<"d","p","_">>
Underscore == <<"_">>
Dot == <<".">>
Quote == <<"\"">>
FillKey == <<"f","i","l","l","=","\"">>
SvgExt == <<".","s","v","g">>
SvgSuffix == <<"_","S","V","G">>
OutName == <<"i","c","o","n","s",".","j","s">>
ConstKw == <<"c","o","n","s","t"," ">>
\* the backquote character is written "BQ": one element, one character
Backquote == <<"BQ">>
Binds == <<" ","="," ">> \o Backquote
DeclEnd == Backquote \o <<"\n">>
ExportKw == <<"\n","e","x","p","o","r","t"," ">>
OpenBrace == <<"{">>
Comma == <<",">>
Space == <<" ">>
CloseJs == <<"}",";">>
CloseFmt == <<"}",";","\n">>

(***************************************************************************)
(* Rename pass: the new name of a file that contains the marker            *)
(***************************************************************************)
newName(file) ==
    SliceTo(file, RFind(SliceTo(file, Find(file, Marker)), Underscore))
        \o SliceFrom(file, RFind(file, Dot))

(***************************************************************************)
(* Compiler: constant name and fill stripping                              *)
(***************************************************************************)
name(file) == Upper(ReplaceHyphen(SliceTo(file, RFind(file, Dot)))) \o SvgSuffix

startFill(icon) == Find(icon, FillKey)

\* iconjs.py: no presence check, the span ends at a fixed offset
endFillJs(icon) ==
    Find(SliceFrom(icon, startFill(icon)), Quote) + startFill(icon) + Len(FillKey)

stripJs(icon) ==
    SliceTo(icon, startFill(icon)) \o SliceFrom(icon, endFillJs(icon) + 1)

\* iconFormating.py: presence check, the span ends after the closing quote
endFillFmt(icon) ==
    Find(SliceFrom(icon, startFill(icon) + Len(FillKey)), Quote)
        + startFill(icon) + Len(FillKey) + 1

\* defect variant: the span of iconjs.py, without the presence check
stripFmtFixedSpan(icon) ==
    SliceTo(icon, startFill(icon))
        \o SliceFrom(icon, Find(SliceFrom(icon, startFill(icon)), Quote)
                              + startFill(icon) + Len(FillKey) + 1)

stripFmt(icon) ==
    IF startFill(icon) # -1
    THEN SliceTo(icon, startFill(icon)) \o SliceFrom(icon, endFillFmt(icon))
    ELSE icon

(***************************************************************************)
(* shutil.move(dir+file, dir+newName) on the directory: dst a directory    *)
(* moves the file into it (an error when it already holds that name),      *)
(* otherwise os.rename replaces whatever regular file is at dst.  A move   *)
(* to the directory above that finds the name taken is among MoveFails.    *)
(***************************************************************************)
Without(f, k) == [x \in DOMAIN f \ {k} |-> f[x]]
With(f, k, v) == [x \in DOMAIN f \cup {k} |-> IF x = k THEN v ELSE f[x]]

\* dir + "." is the directory itself, dir + ".." the one above it
Parent == <<".", ".">>

moveRaises(file, dst) ==
    \/ file \notin DOMAIN fs
    \/ dst = Dot
    \/ dst \in DOMAIN sub /\ file \in DOMAIN sub[dst]

fsAfterMove(file, dst) ==
    IF dst \in DOMAIN sub \/ dst = Parent THEN Without(fs, file)
    ELSE IF dst = file THEN fs
    ELSE With(Without(fs, file), dst, fs[file])

subAfterMove(file, dst) ==
    IF dst \in DOMAIN sub
    THEN [sub EXCEPT ![dst] = With(sub[dst], file, fs[file])]
    ELSE sub

(***************************************************************************)
(* The emit loop body                                                      *)
(***************************************************************************)
strip(icon) == IF script = "iconjs" THEN stripJs(icon) ELSE stripFmt(icon)

\* defect variant: a name that is already listed is not declared again
declarationOnce(file, icon) ==
    IF Find(iconNames, Space \o name(file) \o Space) # -1 THEN <<>>
    ELSE ConstKw \o name(file) \o Binds \o strip(icon) \o DeclEnd

declaration(file, icon) == ConstKw \o name(file) \o Binds \o strip(icon) \o DeclEnd

\* defect variant: the separating comma is never added
appendNameNoComma(names, file) == names \o Space \o name(file) \o Space

appendName(names, file) ==
    (IF names # OpenBrace THEN names \o Comma ELSE names)
        \o Space \o name(file) \o Space

exportStatement(names) ==
    ExportKw \o names \o (IF script = "iconjs" THEN CloseJs ELSE CloseFmt)

\* os.listdir order is the file system's: any enumeration of the entries
Enumerations(S) ==
    {q \in [1..Cardinality(S) -> S] : \A i, j \in 1..Cardinality(S) : q[i] = q[j] => i = j}

regularFiles == DOMAIN fs
\* defect variant: the extension filter is dropped
svgFilesUnfiltered == DOMAIN fs
svgFiles == {f \in DOMAIN fs : EndsWith(f, SvgExt)}

firstPc(s) == IF s = "iconjs" THEN "list2" ELSE "list1"

(***************************************************************************)
(* Directories the scripts are run on                                      *)
(***************************************************************************)
Seqs(A, n) == UNION {[1..k -> A] : k \in 0..n}

FillAttr(v) == FillKey \o v \o Quote

\* icon texts: without the attribute, with one, with two
NoFillTexts == Seqs({"<", "\""}, MaxTextLen) \cup {<<"f","i","l","l","=">>}
FillTexts ==
    {pre \o FillAttr(v) \o post :
        pre \in {<<>>, <<"<">>},
        v \in Seqs({"0"}, MaxValLen),
        post \in {<<>>, <<" ">>, <<">">>, <<" ">> \o FillAttr(<<"1">>)}}
IconTexts == NoFillTexts \cup FillTexts

ASvg == <<"a">> \o SvgExt
StripDirs == {[x \in {ASvg} |-> c] : c \in IconTexts}

\* file names that carry the marker
MarkerNames ==
    {pre \o Marker \o post :
        pre \in Seqs({"a", "_", "."}, MaxPreLen),
        post \in {<<>>, <<"x">>, <<".">>, <<".","s">>, SvgExt, <<"x">> \o Marker}}
RenameDirs == {[x \in {n} |-> <<"m">>] : n \in MarkerNames}

\* named files: every file holds its own name as text, except the two of
\* the end-to-end example
HomeName == <<"h","o","m","e">> \o SvgExt
SearchName == <<"s","e","a","r","c","h","-","i","c","o","n">> \o SvgExt
HomeText ==
    <<"<","s","v","g"," ">> \o FillAttr(<<"#","0","0","0">>)
        \o <<" ","d","=","\"","M","0"," ","0","\"","/",">">>
SearchText == <<"<","s","v","g"," ","d","=","\"","M","1"," ","1","\"","/",">">>
textOf(n) == IF n = HomeName THEN HomeText ELSE IF n = SearchName THEN SearchText ELSE n

MarkedA == <<"a","_">> \o Marker \o SvgExt
CollisionNames ==
    { MarkedA,
      <<"a","_">> \o Marker \o <<"x">> \o SvgExt,
      ASvg,
      <<"i","c","o","n","s","_">> \o Marker \o <<".","j","s">> }
EmitNames ==
    { HomeName, SearchName,
      <<"a","-","b">> \o SvgExt, <<"a","_","b">> \o SvgExt }

NamedDirs(names) ==
    {[x \in S |-> textOf(x)] : S \in {T \in SUBSET names : Cardinality(T) <= MaxFiles}}

\* a file whose name starts with a digit, and directories that hold a
\* subdirectory where a rename or the output goes
OneSvg == <<"1">> \o SvgExt
OtherDirs ==
    { [fs |-> [x \in {OneSvg} |-> OneSvg], sub |-> <<>>],
      [fs |-> [x \in {MarkedA} |-> MarkedA], sub |-> [x \in {ASvg} |-> <<>>]],
      [fs |-> [x \in {MarkedA} |-> MarkedA],
       sub |-> [x \in {ASvg} |-> [y \in {MarkedA} |-> <<"o">>]]],
      [fs |-> [x \in {HomeName} |-> HomeText], sub |-> [x \in {OutName} |-> <<>>]] }

Directories ==
    {[fs |-> d, sub |-> <<>>] :
        d \in StripDirs \cup RenameDirs \cup NamedDirs(CollisionNames) \cup NamedDirs(EmitNames)}
    \cup OtherDirs

Scripts == {"temprename", "iconjs", "iconFormating"}

Init ==
    /\ script \in Scripts
    /\ \E d \in Directories : fs = d.fs /\ sub = d.sub
    /\ pc = firstPc(script)
    /\ files = <<>>
    /\ idx = 1
    /\ icons = <<>>
    /\ iconNames = <<>>
    /\ failedAt = "none"
    /\ run = 1
    /\ fs0 = fs
    /\ listed = <<>>
    /\ hist = <<>>

(***************************************************************************)
(* Steps of a run                                                          *)
(***************************************************************************)
Abort(what) ==
    /\ pc' = "aborted"
    /\ failedAt' = what

\* temprename.py:7, iconFormating.py:18
ListAll ==
    /\ pc = "list1"
    /\ files' \in Enumerations(regularFiles)
    /\ idx' = 1
    /\ pc' = "rename"
    /\ UNCHANGED <<script, fs, sub, icons, iconNames, failedAt, run, fs0, listed, hist>>

\* listdir raises (missing or unreadable directory)
ListFails ==
    /\ pc \in {"list1", "list2"}
    /\ Abort("listdir")
    /\ UNCHANGED <<script, fs, sub, files, idx, icons, iconNames, run, fs0, listed, hist>>

\* temprename.py:10, iconFormating.py:21: continue
RenameSkip ==
    /\ pc = "rename"
    /\ idx <= Len(files)
    /\ Find(files[idx], Marker) = -1
    /\ idx' = idx + 1
    /\ UNCHANGED <<script, fs, sub, pc, files, icons, iconNames, failedAt, run, fs0, listed, hist>>

\* temprename.py:11-12, iconFormating.py:23-24
RenameMove ==
    /\ pc = "rename"
    /\ idx <= Len(files)
    /\ Find(files[idx], Marker) # -1
    /\ LET file == files[idx]
           dst == newName(file)
       IN IF moveRaises(file, dst)
          THEN /\ Abort("move")
               /\ UNCHANGED <<fs, sub, idx>>
          ELSE /\ fs' = fsAfterMove(file, dst)
               /\ sub' = subAfterMove(file, dst)
               /\ idx' = idx + 1
               /\ UNCHANGED <<pc, failedAt>>
    /\ UNCHANGED <<script, files, icons, iconNames, run, fs0, listed, hist>>

\* the operating system refuses the move
MoveFails ==
    /\ pc = "rename"
    /\ idx <= Len(files)
    /\ Find(files[idx], Marker) # -1
    /\ Abort("move")
    /\ UNCHANGED <<script, fs, sub, files, idx, icons, iconNames, run, fs0, listed, hist>>

\* end of the rename loop: temprename.py ends, iconFormating.py goes on
RenameDone ==
    /\ pc = "rename"
    /\ idx > Len(files)
    /\ pc' = IF script = "temprename" THEN "done" ELSE "list2"
    /\ UNCHANGED <<script, fs, sub, files, idx, icons, iconNames, failedAt, run, fs0, listed, hist>>

\* iconjs.py:6-9, iconFormating.py:28-31
ListSvg ==
    /\ pc = "list2"
    /\ files' \in Enumerations(svgFiles)
    /\ idx' = 1
    /\ icons' = <<>>
    /\ iconNames' = OpenBrace
    /\ listed' = [f \in svgFiles |-> fs[f]]
    /\ pc' = "read"
    /\ UNCHANGED <<script, fs, sub, failedAt, run, fs0, hist>>

\* iconjs.py:11-25, iconFormating.py:33-51: one iteration
ReadEmit ==
    /\ pc = "read"
    /\ idx <= Len(files)
    /\ LET file == files[idx]
           icon == fs[file]
       IN /\ icons' = icons \o declaration(file, icon)
          /\ iconNames' = appendName(iconNames, file)
    /\ idx' = idx + 1
    /\ UNCHANGED <<script, fs, sub, pc, files, failedAt, run, fs0, listed, hist>>

\* open or read raises (unreadable file, text that does not decode)
ReadFails ==
    /\ pc = "read"
    /\ idx <= Len(files)
    /\ Abort("read")
    /\ UNCHANGED <<script, fs, sub, files, idx, icons, iconNames, run, fs0, listed, hist>>

\* iconjs.py:27, iconFormating.py:54-55
EmitExport ==
    /\ pc = "read"
    /\ idx > Len(files)
    /\ icons' = icons \o exportStatement(iconNames)
    /\ pc' = "open"
    /\ UNCHANGED <<script, fs, sub, files, idx, iconNames, failedAt, run, fs0, listed, hist>>

\* iconjs.py:29, iconFormating.py:58: open(..., "w") creates or truncates
OpenOut ==
    /\ pc = "open"
    /\ IF OutName \in DOMAIN sub
       THEN /\ Abort("open")
            /\ UNCHANGED fs
       ELSE /\ fs' = With(fs, OutName, <<>>)
            /\ pc' = "write"
            /\ UNCHANGED failedAt
    /\ UNCHANGED <<script, sub, files, idx, icons, iconNames, run, fs0, listed, hist>>

\* the operating system refuses to open the output
OpenFails ==
    /\ pc = "open"
    /\ Abort("open")
    /\ UNCHANGED <<script, fs, sub, files, idx, icons, iconNames, run, fs0, listed, hist>>

\* iconjs.py:30, iconFormating.py:59
WriteOut ==
    /\ pc = "write"
    /\ fs' = With(fs, OutName, icons)
    /\ pc' = "done"
    /\ hist' = Append(hist, [files |-> files, listed |-> listed, out |-> icons])
    /\ UNCHANGED <<script, sub, files, idx, icons, iconNames, failedAt, run, fs0, listed>>

\* the write raises part way (disk full)
WriteFails ==
    /\ pc = "write"
    /\ \E n \in {0, Len(icons) \div 2} : fs' = With(fs, OutName, SubSeq(icons, 1, n))
    /\ Abort("write")
    /\ UNCHANGED <<script, sub, files, idx, icons, iconNames, run, fs0, listed, hist>>

\* the script is started again on the directory as the last run left it
Rerun ==
    /\ pc \in {"done", "aborted"}
    /\ run < MaxRuns
    /\ run' = run + 1
    /\ pc' = firstPc(script)
    /\ files' = <<>>
    /\ idx' = 1
    /\ icons' = <<>>
    /\ iconNames' = <<>>
    /\ failedAt' = "none"
    /\ fs0' = fs
    /\ listed' = <<>>
    /\ UNCHANGED <<script, fs, sub, hist>>

Next ==
    \/ ListAll
    \/ ListFails
    \/ RenameSkip
    \/ RenameMove
    \/ MoveFails
    \/ RenameDone
    \/ ListSvg
    \/ ReadEmit
    \/ ReadFails
    \/ EmitExport
    \/ OpenOut
    \/ OpenFails
    \/ WriteOut
    \/ WriteFails
    \/ Rerun

Spec == Init /\ [][Next]_vars

(***************************************************************************)
(* Reading the generated module back: lines, declarations, export list     *)
(***************************************************************************)
RECURSIVE SplitOn(_, _)
SplitOn(s, c) ==
    LET p == Find(s, <<c>>)
    IN IF p = -1 THEN <<s>>
       ELSE <<SubSeq(s, 1, p)>> \o SplitOn(SubSeq(s, p + 2, Len(s)), c)

RECURSIVE Trim(_)
Trim(s) ==
    IF s = <<>> THEN s
    ELSE IF s[1] = " " THEN Trim(Tail(s))
    ELSE IF s[Len(s)] = " " THEN Trim(SubSeq(s, 1, Len(s) - 1))
    ELSE s

StartsWith(s, t) == OccursAt(s, t, 0)
Range(q) == {q[i] : i \in DOMAIN q}

IsDeclLine(l) == StartsWith(l, <<"c","o","n","s","t"," ">>)
IsExportLine(l) == StartsWith(l, <<"e","x","p","o","r","t"," ">>)
IsNonEmpty(l) == l # <<>>

LinesOf(text) == SplitOn(text, "\n")
DeclLines(text) == SelectSeq(LinesOf(text), IsDeclLine)
ExportLines(text) == SelectSeq(LinesOf(text), IsExportLine)
NonEmptyLines(text) == SelectSeq(LinesOf(text), IsNonEmpty)

\* const <NAME> = `<BODY>`
DeclName(l) == SubSeq(l, 7, Find(l, <<" ","="," ">>))
DeclBody(l) == SubSeq(l, Find(l, Backquote) + 2, RFind(l, Backquote))

\* export { N1 , N2 };
ExportWellFormed(l) ==
    /\ StartsWith(l, <<"e","x","p","o","r","t"," ","{">>)
    /\ EndsWith(l, <<"}",";">>)
ExportNames(l) ==
    LET inner == SubSeq(l, 9, Len(l) - 2)
        parts == SplitOn(inner, ",")
    IN IF Trim(inner) = <<>> THEN <<>>
       ELSE [i \in 1..Len(parts) |-> Trim(parts[i])]

HasMarkerAt(i) == i <= Len(files) /\ Find(files[i], Marker) # -1
Compiler == script \in {"iconjs", "iconFormating"}
Emitting == Compiler /\ pc = "read"
Written == Compiler /\ pc = "done"
RenamePassOver ==
    \/ script = "temprename" /\ pc = "done"
    \/ script = "iconFormating" /\ pc = "list2"

(***************************************************************************)
(* C1, C2: the fill stripper                                               *)
(***************************************************************************)
HasFill(t) == Find(t, FillKey) # -1
\* the attribute is closed: a quote follows the key
HasClosedFill(t) ==
    HasFill(t) /\ Find(SliceFrom(t, Find(t, FillKey) + 6), Quote) # -1
\* t without its first fill="X": from the f to the closing quote
WithoutFirstFill(t) ==
    LET s == Find(t, FillKey)
        q == CHOOSE i \in (s + 7)..Len(t) :
                 t[i] = "\"" /\ \A j \in (s + 7)..(i - 1) : t[j] # "\""
    IN SubSeq(t, 1, s) \o SubSeq(t, q + 1, Len(t))

\* C1: a text with no fill=" is emitted in its declaration unchanged,
\* character for character, by each compiler script.
C1_NoFillUnchanged ==
    Emitting =>
        \A i \in 1..(idx - 1) :
            ~HasFill(listed[files[i]]) =>
                DeclBody(DeclLines(icons)[i]) = listed[files[i]]

\* C2: a text with a fill="X" attribute is emitted with exactly the first
\* such attribute removed (f to closing quote) and nothing else altered, by
\* each compiler script.
C2_FirstFillRemoved ==
    Emitting =>
        \A i \in 1..(idx - 1) :
            HasClosedFill(listed[files[i]]) =>
                DeclBody(DeclLines(icons)[i]) = WithoutFirstFill(listed[files[i]])

(***************************************************************************)
(* C3, C4: the rename pass                                                 *)
(***************************************************************************)
MaxOf(S) == CHOOSE i \in S : \A j \in S : i >= j

\* the name the claim describes: what precedes the last "_" before the
\* first marker, then the text from the last "." to the end
claimedName(f) ==
    LET p == Find(f, Marker)
        us == {i \in 1..p : f[i] = "_"}
        ds == {i \in 1..Len(f) : f[i] = "."}
    IN (IF us = {} THEN <<>> ELSE SubSeq(f, 1, MaxOf(us) - 1))
        \o (IF ds = {} THEN <<>> ELSE SubSeq(f, MaxOf(ds), Len(f)))

\* C3: every file whose name contains the marker is moved to the name the
\* claim describes (into the subdirectory of that name, if there is one).
C3_RenamedAsClaimed ==
    [][(pc = "rename" /\ idx' = idx + 1 /\ HasMarkerAt(idx))
         => LET f == files[idx]
                g == claimedName(f)
            IN \/ g \in DOMAIN fs' /\ fs'[g] = fs[f]
               \/ g \in DOMAIN sub' /\ f \in DOMAIN sub'[g]]_vars

\* C4: after the rename pass every file whose name lacks the marker is
\* still there under its name with its content.
C4_UnmarkedUntouched ==
    RenamePassOver =>
        \A f \in DOMAIN fs0 :
            Find(f, Marker) = -1 => f \in DOMAIN fs /\ fs[f] = fs0[f]

(***************************************************************************)
(* C5, C8: declarations and export list of the generated module            *)
(***************************************************************************)
DistinctNames(q) == \A i, j \in 1..Len(q) : name(q[i]) = name(q[j]) => i = j
Collide(q, i, j) == i < j /\ name(q[i]) = name(q[j])

\* C5: when the derived names of the enumerated .svg files are pairwise
\* distinct, the written module holds one declaration per file and one
\* trailing export statement naming each constant once, both in the order
\* of enumeration; for no file, no declaration and an empty export list.
C5_OneDeclarationPerFile ==
    (Written /\ DistinctNames(files)) =>
        LET text == fs[OutName]
            decls == DeclLines(text)
            exps == ExportLines(text)
            last == NonEmptyLines(text)[Len(NonEmptyLines(text))]
        IN /\ Len(decls) = Len(files)
           /\ \A i \in 1..Len(files) : DeclName(decls[i]) = name(files[i])
           /\ Len(exps) = 1
           /\ last = exps[1]
           /\ ExportWellFormed(exps[1])
           /\ ExportNames(exps[1]) = [i \in 1..Len(files) |-> name(files[i])]

C5_Witness == Written /\ DistinctNames(files) /\ Len(files) = 2

\* C8 as stated: when two enumerated files derive the same name, the module
\* holds a single declaration of that name, bound to the later file's text,
\* and the name stands twice in the export list.
C8_LaterOverwrites ==
    Written =>
        \A i, j \in 1..Len(files) :
            Collide(files, i, j) =>
                LET text == fs[OutName]
                    same == SelectSeq(DeclLines(text),
                                LAMBDA l : DeclName(l) = name(files[j]))
                IN /\ Len(same) = 1
                   /\ Len(ExportLines(text)) = 1
                   /\ ExportNames(ExportLines(text)[1])[i] = name(files[j])
                   /\ ExportNames(ExportLines(text)[1])[j] = name(files[j])

\* C8 amended: when two enumerated files derive the same name, nothing is
\* overwritten: the module holds one declaration per file, so two of that
\* name, each bound to its own file's stripped text in enumeration order,
\* and the name stands twice in the export list.
C8_BothDeclared ==
    Written =>
        \A i, j \in 1..Len(files) :
            Collide(files, i, j) =>
                LET text == fs[OutName]
                    decls == DeclLines(text)
                IN /\ Len(decls) = Len(files)
                   /\ DeclName(decls[i]) = name(files[j])
                   /\ DeclName(decls[j]) = name(files[j])
                   /\ DeclBody(decls[i]) = strip(listed[files[i]])
                   /\ DeclBody(decls[j]) = strip(listed[files[j]])
                   /\ Len(ExportLines(text)) = 1
                   /\ ExportNames(ExportLines(text)[1])[i] = name(files[j])
                   /\ ExportNames(ExportLines(text)[1])[j] = name(files[j])

C8_Witness == Written /\ \E i, j \in 1..Len(files) : Collide(files, i, j)

(***************************************************************************)
(* C6: the end-to-end example                                              *)
(***************************************************************************)
C6_Example ==
    /\ Written
    /\ files = <<HomeName, SearchName>>
    /\ listed = [f \in {HomeName, SearchName} |-> textOf(f)]

NL == <<"\n">>
HomeLineTwoSpaces == <<"c","o","n","s","t"," ","H","O","M","E","_","S","V","G"," ","="," ","BQ","<","s","v","g"," "," ","d","=","\"","M","0"," ","0","\"","/",">","BQ">>
HomeLineOneSpace == <<"c","o","n","s","t"," ","H","O","M","E","_","S","V","G"," ","="," ","BQ","<","s","v","g"," ","d","=","\"","M","0"," ","0","\"","/",">","BQ">>
SearchLine == <<"c","o","n","s","t"," ","S","E","A","R","C","H","_","I","C","O","N","_","S","V","G"," ","="," ","BQ","<","s","v","g"," ","d","=","\"","M","1"," ","1","\"","/",">","BQ">>
SearchLineSpliced == <<"c","o","n","s","t"," ","S","E","A","R","C","H","_","I","C","O","N","_","S","V","G"," ","="," ","BQ","<","s","v","g"," ","d","=","\"","M","1"," ","1","\"","/","d","=","\"","M","1"," ","1","\"","/",">","BQ">>
ExportLineStated == <<"e","x","p","o","r","t"," ","{"," ","H","O","M","E","_","S","V","G",","," ","S","E","A","R","C","H","_","I","C","O","N","_","S","V","G","}",";">>
ExportLineEmitted == <<"e","x","p","o","r","t"," ","{"," ","H","O","M","E","_","S","V","G"," ",","," ","S","E","A","R","C","H","_","I","C","O","N","_","S","V","G"," ","}",";">>

OutUntouched ==
    /\ OutName \in DOMAIN fs <=> OutName \in DOMAIN fs0
    /\ OutName \in DOMAIN fs => fs[OutName] = fs0[OutName]

Digits == {"0","1","2","3","4","5","6","7","8","9"}
IdentStart == Range(LowerLetters) \cup Range(UpperLetters) \cup {"_", "$"}
IsIdentifier(n) ==
    /\ n # <<>>
    /\ n[1] \in IdentStart
    /\ \A i \in 1..Len(n) : n[i] \in IdentStart \cup Digits

\* C9: the constant name derived from every file that passes the .svg
\* filter is a valid identifier of the module language.
C9_NameIsIdentifier ==
    Emitting => \A i \in 1..Len(files) : IsIdentifier(name(files[i]))

====
